---- MODULE Spec2Model ----
(***************************************************************************)
(* Model of catsim/cat/irt.py: the three-parameter logistic function tpm,  *)
(* the log-likelihood logLik, its negation negativelogLik, and the         *)
(* hill-climbing estimator maximum_likelihood.                             *)
(*                                                                         *)
(* Numbers.  Python floats are modelled in fixed point.  Thetas and the    *)
(* item parameters a, b, c are integers counting hundredths (U = 100);     *)
(* exponent arguments, exponentials, probabilities and log-likelihoods are *)
(* integers counting 1/F with F = U*U.  Where a float operation rounds,    *)
(* the model rounds to the nearest 1/F (or 1/U for thetas), so saturation  *)
(* of a probability at exactly 0 or 1 happens at smaller arguments than    *)
(* with 53-bit doubles; the overflow threshold of math.exp is kept at its  *)
(* IEEE value.  -inf and +inf are kept as distinct values (NegInf, PosInf).*)
(*                                                                         *)
(* Exceptions.  Python raises ValueError at three places; the model names  *)
(* them by the place: "DimensionMismatch" (logLik, line 59), "DomainError" *)
(* (math.log of a value <= 0, lines 67-68), "EmptySequence" (min()/max()   *)
(* of an empty column, lines 107-108).  "OverflowError" is math.exp's.     *)
(*                                                                         *)
(* verbose is taken False (its default): it only guards print calls.       *)
(***************************************************************************)
EXTENDS Integers, Sequences, FiniteSets

VARIABLES
    call,               \* the top-level function invoked
    pc,                 \* "call", "for_i" (line 114), "for_ii" (line 120), "done"
    est_theta,          \* argument theta / est_theta of tpm, logLik, negativelogLik
    response_vector,    \* argument: sequence of 0/1
    administered_items, \* argument: sequence of rows <<a, b, c>>
    precision,          \* argument of maximum_likelihood
    lbound, ubound,     \* locals of maximum_likelihood
    best_theta, max_ll, \* locals of maximum_likelihood (extended reals)
    iters,              \* local of maximum_likelihood
    i,                  \* how many values of range(10) the outer loop has drawn
    intervals,          \* np.linspace(lbound, ubound, 10) of the current round
    ii_pos,             \* position in intervals of the next candidate ii
    result,             \* outcome of the call: none / return value / raised error
    stdout,             \* what tpm printed (sequence of <<theta, a, b, c>>)
    tpm_calls,          \* history: number of calls of tpm made so far
    evaluated           \* history: the logLik evaluations that returned, in order

vars == <<call, pc, est_theta, response_vector, administered_items, precision,
          lbound, ubound, best_theta, max_ll, iters, i, intervals, ii_pos,
          result, stdout, tpm_calls, evaluated>>

locals == <<lbound, ubound, best_theta, max_ll, iters, i, intervals, ii_pos>>

args == <<call, est_theta, response_vector, administered_items, precision>>

----------------------------------------------------------------------------
(* Bounds of the model *)

\* longest response vector and largest number of item rows
MaxLen == 2

----------------------------------------------------------------------------
(* Fixed-point numbers *)

\* units per 1.0 of theta, a, b, c
U == 100

\* units per 1.0 of exponent arguments, exponentials, probabilities, logs
F == U * U

\* ln 2 in units of 1/F
Ln2 == 6931

\* largest argument (in 1/F) math.exp accepts: ln(DBL_MAX) = 709.7827...
ExpArgMax == 7097827

\* arguments beyond +-ExpClamp give exponentials that the quotient of line 31
\* rounds to 0, resp. exponentials that round to 0 themselves
ExpClamp == 11 * F

Abs(x) == IF x < 0 THEN -x ELSE x

\* n / d rounded to the nearest integer (d > 0)
RoundDiv(n, d) == (n + d \div 2) \div d

\* extended reals
Fin(x) == [inf |-> 0, v |-> x]
NegInf == [inf |-> -1, v |-> 0]
PosInf == [inf |-> 1, v |-> 0]

\* x > y on extended reals (line 123)
ExtGt(x, y) ==
    IF x.inf # y.inf THEN x.inf > y.inf
    ELSE x.inf = 0 /\ x.v > y.v

\* z limited to -ExpClamp..ExpClamp
Clamp(z) == IF z > ExpClamp THEN ExpClamp ELSE IF z < -ExpClamp THEN -ExpClamp ELSE z

\* e^(zc/F) in units of 1/F, for zc in -ExpClamp..ExpClamp:
\* e^z = 2^k * 2^f with k + f = z / ln 2, 2^f by its Taylor polynomial
ExpVal(zc) ==
    LET q  == RoundDiv(zc * 14427, 10000)
        k  == q \div F
        f  == q - k * F
        g  == RoundDiv(f * Ln2, F)
        t2 == RoundDiv(g * g, 2 * F)
        t3 == RoundDiv(t2 * g, 3 * F)
        t4 == RoundDiv(t3 * g, 4 * F)
        t5 == RoundDiv(t4 * g, 5 * F)
        t6 == RoundDiv(t5 * g, 6 * F)
        s  == F + g + t2 + t3 + t4 + t5 + t6
    IN  IF k >= 0 THEN s * 2^k ELSE RoundDiv(s, 2^(-k))

\* a math.exp that saturates instead of raising
expSaturating(z) == [err |-> "none", v |-> ExpVal(Clamp(z))]

\* math.exp(z): OverflowError when the result exceeds the largest double
exp(z) ==
    IF z > ExpArgMax THEN [err |-> "OverflowError", v |-> 0]
    ELSE [err |-> "none", v |-> ExpVal(Clamp(z))]

\* ln(p/F) in units of 1/F, for p >= 1:
\* p = m / 2^k with m in [1/2, 1], ln m = 2 atanh((m-1)/(m+1))
LnVal(p) ==
    LET k  == CHOOSE n \in 0..14 : 2 * p * 2^n >= F /\ (n = 0 \/ 2 * p * 2^(n-1) < F)
        m  == p * 2^k
        y  == RoundDiv((m - F) * F, m + F)
        y2 == RoundDiv(y * y, F)
        y3 == RoundDiv(y2 * y, F)
        y5 == RoundDiv(y3 * y2, F)
        y7 == RoundDiv(y5 * y2, F)
    IN  2 * y + RoundDiv(2 * y3, 3) + RoundDiv(2 * y5, 5) + RoundDiv(2 * y7, 7) - k * Ln2

\* the logarithms of the probabilities 1/F .. F/F
LnTable == [p \in 1..F |-> LnVal(p)]

\* math.log(p): ValueError (math domain error) when p <= 0
log(p) ==
    IF p <= 0 THEN [err |-> "DomainError", v |-> 0]
    ELSE [err |-> "none", v |-> LnTable[p]]

----------------------------------------------------------------------------
(* tpm, logLik, negativelogLik (lines 9-87) as functions of their arguments.
   Each returns a record: err ("none" when the call returns), v (the value
   returned), printed (what it wrote to stdout), and for logLik calls (the
   calls of tpm it made).  A value computed once and used several times is
   bound as the element of a singleton: Only({e(x) : x \in {v}}). *)

Only(S) == CHOOSE x \in S : TRUE

\* line 31: c + ((1 - c) / (1 + math.exp(-a * (theta - b)))); lines 32-35:
\* on OverflowError print the values and re-raise
tpm(theta, a, b, c) ==
    Only({ IF e.err # "none"
           THEN [err |-> e.err, v |-> 0, printed |-> << <<theta, a, b, c>> >>]
           ELSE [err |-> "none",
                 v |-> c * U + RoundDiv((U - c) * U * F, F + e.v),
                 printed |-> <<>>]
           : e \in {exp((-a) * (theta - b))} })

\* lines 67-68 taking only the logarithm the response selects
LLTermSelected(x, prob) == IF x = 1 THEN log(prob) ELSE log(F - prob)

\* lines 67-68: x * math.log(prob) + (1 - x) * math.log(1 - prob); both
\* logarithms are taken, whatever x is, math.log(prob) first
LLTerm(x, prob) ==
    Only({ IF l1.err # "none" THEN l1
           ELSE Only({ IF l0.err # "none" THEN l0
                       ELSE [err |-> "none", v |-> x * l1.v + (1 - x) * l0.v]
                       : l0 \in {log(F - prob)} })
           : l1 \in {log(prob)} })

\* lines 64-68: one pass of the loop, for the response x to the item row
ItemTerm(theta, x, row) ==
    Only({ IF prob.err # "none" THEN prob
           ELSE Only({ [err |-> term.err, v |-> term.v, printed |-> <<>>]
                       : term \in {LLTerm(x, prob.v)} })
           : prob \in {tpm(theta, row[1], row[2], row[3])} })

\* lines 63-69: the loop over the items, from item n on, with LL so far
RECURSIVE LogLikLoop(_, _, _, _, _)
LogLikLoop(theta, rv, items, n, LL) ==
    IF n > Len(rv)
    THEN [err |-> "none", v |-> LL, printed |-> <<>>, calls |-> n - 1]
    ELSE Only({ IF term.err # "none"
                THEN [err |-> term.err, v |-> 0, printed |-> term.printed, calls |-> n]
                ELSE LogLikLoop(theta, rv, items, n + 1, LL + term.v)
                : term \in {ItemTerm(theta, rv[n], items[n])} })

\* a check that only rejects a response vector longer than the items
LengthsDifferLonger(rv, items) == Len(rv) > Len(items)

\* lines 58-60: the check of the lengths
LengthsDiffer(rv, items) == Len(rv) # Len(items)

\* lines 58-69
logLik(theta, rv, items) ==
    IF LengthsDiffer(rv, items)
    THEN [err |-> "DimensionMismatch", v |-> 0, printed |-> <<>>, calls |-> 0]
    ELSE LogLikLoop(theta, rv, items, 1, 0)

\* line 87
negativelogLik(theta, rv, items) ==
    Only({ [r EXCEPT !.v = -r.v] : r \in {logLik(theta, rv, items)} })

----------------------------------------------------------------------------
(* Helpers of maximum_likelihood (lines 90-139) *)

\* an outer loop of one more round
RoundsOneMore == 10 + 1

\* range(10) of line 114
Rounds == 10

\* the number of samples of np.linspace(lbound, ubound, 10), line 115
Samples == 10

\* Python values as far as == of line 102 tells them apart: a value of type
\* set and a value of type int are never equal
PySet(rv) == [type |-> "set", val |-> {rv[n] : n \in DOMAIN rv}]
PyInt(n) == [type |-> "int", val |-> {n}]
PyEq(x, y) == x.type = y.type /\ x.val = y.val

\* lines 102 and 104: set(response_vector) == n
SetEquals(rv, n) == PyEq(PySet(rv), PyInt(n))

\* administered_items[:, 1]
Difficulties(items) == {items[n][2] : n \in DOMAIN items}

\* min() and max() of a non-empty column, lines 107-108
Min(S) == CHOOSE x \in S : \A y \in S : x <= y
Max(S) == CHOOSE x \in S : \A y \in S : x >= y

\* line 115: np.linspace(lb, ub, 10): sample k is start + k * (stop - start) / 9,
\* rounded, and the last sample is stop itself
Linspace(lb, ub) ==
    [k \in 1..Samples |-> IF k = Samples THEN ub
                          ELSE lb + RoundDiv((k - 1) * (ub - lb), Samples - 1)]

\* line 123 with the comparison turned round
ImprovesReversed(ll, best_ll) == ExtGt(best_ll, Fin(ll))

\* line 123: ll > max_ll
Improves(ll, best_ll) == ExtGt(Fin(ll), best_ll)

\* line 129 with <= for <
ConvergedInclusive(best, ii, prec) ==
    /\ best.inf = 0
    /\ Abs(best.v - ii) <= (U + 10^prec - 1) \div (10^prec)

\* line 129: abs(best_theta - ii) < float('1e-' + str(precision)),
\* that is |best_theta - ii| * 10^precision < 1, with thetas in units of 1/U
Converged(best, ii, prec) ==
    /\ best.inf = 0
    /\ Abs(best.v - ii) < (U + 10^prec - 1) \div (10^prec)

\* line 135 stepping back by the width of the bracket, not by the spacing
NarrowLboundWidth(best, ivs) == best.v - (ivs[Len(ivs)] - ivs[1])

\* line 135: best_theta - (intervals[1] - intervals[0]); best_theta is finite
\* whenever line 135 is reached
NarrowLbound(best, ivs) == best.v - (ivs[2] - ivs[1])

\* line 136
NarrowUbound(ii) == ii

\* line 110 starting the maximum at 0
InitialMaxLLZero == Fin(0)

\* lines 109-110
InitialBestTheta == NegInf
InitialMaxLL == NegInf

None == [kind |-> "none", val |-> Fin(0), err |-> "none"]
Return(x) == [kind |-> "return", val |-> x, err |-> "none"]
Raise(e) == [kind |-> "raise", val |-> Fin(0), err |-> e]

----------------------------------------------------------------------------
(* Inputs *)

\* rows <<a, b, c>> in units of 1/U: two ordinary items and two with the
\* extreme discrimination a = 50
ItemParams == { <<100, -100, 0>>, <<150, 100, 20>>, <<5000, 0, 0>>, <<5000, 5000, 0>> }

\* thetas passed to tpm, logLik and negativelogLik when called directly
Thetas == {-5000, 0, 2500, 5000}

\* values of the argument precision (6 is its default)
Precisions == {0, 1, 6}

SeqsUpTo(S, n) == UNION {[1..m -> S] : m \in 0..n}

ResponseVectors == SeqsUpTo({0, 1}, MaxLen)

ItemMatrices == SeqsUpTo(ItemParams, MaxLen)

Calls == {"tpm", "logLik", "negativelogLik", "maximum_likelihood"}

----------------------------------------------------------------------------
(* The state machine: one call of one of the four functions *)

Init ==
    /\ call \in Calls
    /\ pc = "call"
    /\ est_theta \in IF call = "maximum_likelihood" THEN {0} ELSE Thetas
    /\ response_vector \in IF call = "tpm" THEN {<<>>} ELSE ResponseVectors
    /\ administered_items \in IF call = "tpm" THEN {<<p>> : p \in ItemParams}
                                              ELSE ItemMatrices
    /\ precision \in IF call = "maximum_likelihood" THEN Precisions ELSE {6}
    /\ lbound = 0 /\ ubound = 0
    /\ best_theta = NegInf /\ max_ll = NegInf
    /\ iters = 0 /\ i = 0
    /\ intervals = <<>> /\ ii_pos = 0
    /\ result = None
    /\ stdout = <<>>
    /\ tpm_calls = 0
    /\ evaluated = <<>>

\* what a finished call r of tpm/logLik/negativelogLik leaves behind
Finish(r) ==
    /\ pc' = "done"
    /\ result' = IF r.err = "none" THEN Return(Fin(r.v)) ELSE Raise(r.err)
    /\ stdout' = stdout \o r.printed
    /\ UNCHANGED <<args, locals, evaluated>>

\* tpm(theta, a, b, c) called by the user (lines 30-35)
CallTpm ==
    /\ call = "tpm" /\ pc = "call"
    /\ \E row \in {administered_items[1]} :
           Finish(tpm(est_theta, row[1], row[2], row[3]))
    /\ tpm_calls' = tpm_calls + 1

\* logLik(est_theta, response_vector, administered_items) called by the user
CallLogLik ==
    /\ call = "logLik" /\ pc = "call"
    /\ \E r \in {logLik(est_theta, response_vector, administered_items)} :
           Finish(r) /\ tpm_calls' = tpm_calls + r.calls

\* negativelogLik(est_theta, response_vector, administered_items)
CallNegativelogLik ==
    /\ call = "negativelogLik" /\ pc = "call"
    /\ \E r \in {negativelogLik(est_theta, response_vector, administered_items)} :
           Finish(r) /\ tpm_calls' = tpm_calls + r.calls

\* maximum_likelihood, lines 102-112: the shortcuts and the initial bracket
MLStart ==
    /\ call = "maximum_likelihood" /\ pc = "call"
    /\ IF SetEquals(response_vector, 1)
       THEN pc' = "done" /\ result' = Return(PosInf) /\ UNCHANGED locals
       ELSE IF SetEquals(response_vector, 0)
       THEN pc' = "done" /\ result' = Return(NegInf) /\ UNCHANGED locals
       ELSE IF Difficulties(administered_items) = {}
       THEN pc' = "done" /\ result' = Raise("EmptySequence") /\ UNCHANGED locals
       ELSE /\ lbound' = Min(Difficulties(administered_items))
            /\ ubound' = Max(Difficulties(administered_items))
            /\ best_theta' = InitialBestTheta
            /\ max_ll' = InitialMaxLL
            /\ iters' = 0
            /\ pc' = "for_i"
            /\ UNCHANGED <<i, intervals, ii_pos, result>>
    /\ UNCHANGED <<args, stdout, tpm_calls, evaluated>>

\* lines 114-115: the outer loop draws its next value and samples the bracket
RoundStart ==
    /\ pc = "for_i" /\ i < Rounds
    /\ i' = i + 1
    /\ intervals' = Linspace(lbound, ubound)
    /\ ii_pos' = 1
    /\ pc' = "for_ii"
    /\ UNCHANGED <<args, lbound, ubound, best_theta, max_ll, iters, result,
                   stdout, tpm_calls, evaluated>>

\* line 139: the outer loop is exhausted
ReturnBest ==
    /\ pc = "for_i" /\ i = Rounds
    /\ pc' = "done"
    /\ result' = Return(best_theta)
    /\ UNCHANGED <<args, locals, stdout, tpm_calls, evaluated>>

\* the candidate ii of the next pass of the inner loop, and line 122 for it
ii == intervals[ii_pos]
Eval == logLik(ii, response_vector, administered_items)

\* lines 121-122, common to every pass of the inner loop; ll is line 122's
\* outcome
Evaluate(ll) ==
    /\ iters' = iters + 1
    /\ tpm_calls' = tpm_calls + ll.calls
    /\ stdout' = stdout \o ll.printed
    /\ evaluated' = IF ll.err = "none"
                    THEN Append(evaluated, [theta |-> ii, ll |-> ll.v])
                    ELSE evaluated
    /\ UNCHANGED <<args, i, intervals>>

\* line 122 raises: nothing in maximum_likelihood catches it
ScanRaise ==
    /\ pc = "for_ii"
    /\ \E ll \in {Eval} :
        /\ Evaluate(ll)
        /\ ll.err # "none"
        /\ pc' = "done"
        /\ result' = Raise(ll.err)
        /\ UNCHANGED <<lbound, ubound, best_theta, max_ll, ii_pos>>

\* lines 123-130: an improvement within the precision of the previous best
ScanConverge ==
    /\ pc = "for_ii"
    /\ \E ll \in {Eval} :
        /\ Evaluate(ll)
        /\ ll.err = "none"
        /\ Improves(ll.v, max_ll)
        /\ Converged(best_theta, ii, precision)
        /\ max_ll' = Fin(ll.v)
        /\ pc' = "done"
        /\ result' = Return(Fin(ii))
        /\ UNCHANGED <<lbound, ubound, best_theta, ii_pos>>

\* lines 123-132: an improvement; the scan goes on, or the round is over
ScanImprove ==
    /\ pc = "for_ii"
    /\ \E ll \in {Eval} :
        /\ Evaluate(ll)
        /\ ll.err = "none"
        /\ Improves(ll.v, max_ll)
        /\ ~Converged(best_theta, ii, precision)
        /\ max_ll' = Fin(ll.v)
        /\ best_theta' = Fin(ii)
        /\ IF ii_pos < Len(intervals)
           THEN ii_pos' = ii_pos + 1 /\ pc' = "for_ii"
           ELSE ii_pos' = ii_pos /\ pc' = "for_i"
        /\ UNCHANGED <<lbound, ubound, result>>

\* lines 134-137: no improvement; narrow the bracket and leave the round
ScanNarrow ==
    /\ pc = "for_ii"
    /\ \E ll \in {Eval} :
        /\ Evaluate(ll)
        /\ ll.err = "none"
        /\ ~Improves(ll.v, max_ll)
        /\ lbound' = NarrowLbound(best_theta, intervals)
        /\ ubound' = NarrowUbound(ii)
        /\ pc' = "for_i"
        /\ UNCHANGED <<best_theta, max_ll, ii_pos, result>>

Next ==
    \/ CallTpm
    \/ CallLogLik
    \/ CallNegativelogLik
    \/ MLStart
    \/ RoundStart
    \/ ReturnBest
    \/ ScanRaise
    \/ ScanConverge
    \/ ScanImprove
    \/ ScanNarrow

Spec == Init /\ [][Next]_vars

\* a call, once made, runs to its end: the interpreter keeps executing it
FairSpec == Spec /\ WF_vars(Next)

----------------------------------------------------------------------------
(* Properties *)

ML == call = "maximum_likelihood"

AllEqual(rv, x) == rv # <<>> /\ \A n \in DOMAIN rv : rv[n] = x

\* the thetas at which logLik returned during this call
EvaluatedThetas == {evaluated[n].theta : n \in DOMAIN evaluated}

\* C1: maximum_likelihood, given a non-empty response vector of all 1 (all 0)
\* and items of the same length, returns +infinity (-infinity) and has
\* evaluated logLik at no candidate.
C1_DegenerateShortcut ==
    (ML /\ pc = "done" /\ Len(response_vector) = Len(administered_items)) =>
        /\ AllEqual(response_vector, 1) => result = Return(PosInf) /\ iters = 0
        /\ AllEqual(response_vector, 0) => result = Return(NegInf) /\ iters = 0

\* C2 as claimed: logLik with lengths that differ raises the dimension error
\* without calling tpm, and maximum_likelihood with such inputs ends with
\* that same error.
C2_MismatchSurfaces ==
    (pc = "done" /\ Len(response_vector) # Len(administered_items)) =>
        /\ call = "logLik" => result = Raise("DimensionMismatch") /\ tpm_calls = 0
        /\ ML => result = Raise("DimensionMismatch")

\* C2 amended: logLik with lengths that differ raises the dimension error
\* without calling tpm; maximum_likelihood with such inputs never returns a
\* theta and never calls tpm: with at least one item row it ends with the
\* dimension error of its first evaluation, with no row it ends with the
\* error of min() on the empty column of difficulties, before any evaluation.
C2_MismatchRaises ==
    (pc = "done" /\ Len(response_vector) # Len(administered_items)) =>
        /\ call = "logLik" => result = Raise("DimensionMismatch") /\ tpm_calls = 0
        /\ ML => /\ result.kind = "raise"
                 /\ tpm_calls = 0
                 /\ administered_items # <<>> =>
                        result = Raise("DimensionMismatch") /\ iters = 1
                 /\ administered_items = <<>> =>
                        result = Raise("EmptySequence") /\ iters = 0

C2_Witness ==
    /\ ML /\ pc = "done"
    /\ Len(response_vector) < Len(administered_items)
    /\ response_vector # <<>>
    /\ result = Raise("DimensionMismatch")

\* C3: every call of maximum_likelihood ends, having drawn at most 10 rounds,
\* evaluated at most 10 candidates in each, and so at most 100 in all.
C3_BoundedSearch ==
    /\ [](ML => /\ i <= 10
                /\ iters <= 10 * i
                /\ iters <= 100
                /\ pc = "for_ii" => ii_pos <= 10)
    /\ <>(pc = "done")

C3_Witness == ML /\ pc = "done" /\ i = 10 /\ iters > 10 /\ result.kind = "return"

\* item n has a probability of exactly 0 or exactly 1 (F/F) at theta
SaturatedItem(theta, items, n) ==
    \E prob \in {tpm(theta, items[n][1], items[n][2], items[n][3])} :
        prob.err = "none" /\ prob.v \in {0, F}

\* the loop of logLik at theta computes a probability that is exactly 0 or 1:
\* it reaches such an item, every item before it having gone through
SaturatedAt(theta, rv, items) ==
    /\ Len(rv) = Len(items)
    /\ \E n \in DOMAIN rv :
        /\ LogLikLoop(theta, SubSeq(rv, 1, n - 1), items, 1, 0).err = "none"
        /\ SaturatedItem(theta, items, n)

TpmA == administered_items[1][1]
TpmB == administered_items[1][2]
TpmC == administered_items[1][3]

MaxEvaluated == Max({evaluated[n].ll : n \in DOMAIN evaluated})

\* the theta the search holds as its best: the one it returned, once it has
\* returned, and best_theta until then
TrackedBest == IF result.kind = "return" THEN result.val ELSE best_theta

\* C6: after every evaluation max_ll is the largest log-likelihood of all
\* candidates evaluated so far, in any round, and the best theta is a
\* candidate that attains it; the theta returned after 10 rounds is an
\* evaluated candidate with the largest log-likelihood of the call.
C6_GlobalRunningMaximum ==
    (ML /\ evaluated # <<>>) =>
        /\ max_ll = Fin(MaxEvaluated)
        /\ TrackedBest.inf = 0
        /\ \E n \in DOMAIN evaluated :
               evaluated[n].theta = TrackedBest.v /\ evaluated[n].ll = MaxEvaluated
        /\ (pc = "done" /\ result = Return(best_theta)) =>
               \E n \in DOMAIN evaluated :
                   /\ evaluated[n].theta = result.val.v
                   /\ \A m \in DOMAIN evaluated : evaluated[m].ll <= evaluated[n].ll

C6_Witness ==
    /\ ML /\ pc = "done" /\ result = Return(best_theta) /\ i = 10
    /\ \E m, n \in DOMAIN evaluated :
           /\ m < n
           /\ evaluated[n].ll < evaluated[m].ll
           /\ evaluated[m].ll = max_ll.v
           /\ evaluated[m].theta = best_theta.v

\* the candidate ii strictly improves on the best log-likelihood so far
StrictlyImproves == Eval.err = "none" /\ (max_ll.inf = -1 \/ Eval.v > max_ll.v)

\* ii is within 10^-precision of best_theta, thetas counting 1/U
WithinPrecision ==
    /\ best_theta.inf = 0
    /\ IF 10^precision > U THEN best_theta.v = ii
       ELSE Abs(best_theta.v - ii) < U \div 10^precision

\* C7: a candidate that strictly improves the best log-likelihood and lies
\* within 10^-precision of the previous best theta is returned at once; the
\* scan returns a theta in no other case, in particular never at a candidate
\* that does not strictly improve; after the return nothing is evaluated.
C7_ConvergenceExit ==
    [][ /\ pc = "for_ii" =>
            /\ (StrictlyImproves /\ WithinPrecision) =>
                   /\ pc' = "done"
                   /\ result' = Return(Fin(ii))
                   /\ iters' = iters + 1
            /\ (pc' = "done" /\ result'.kind = "return") =>
                   StrictlyImproves /\ WithinPrecision
        /\ pc = "done" => iters' = iters /\ result' = result ]_vars

C7_Witness ==
    /\ ML /\ pc = "done" /\ iters > 0 /\ i > 1
    /\ result = Return(Fin(ii))
    /\ best_theta.inf = 0 /\ best_theta.v # ii

\* C8: a candidate that does not strictly improve ends its round, and the
\* next bracket is lbound = best_theta - (the spacing of the round scanned),
\* ubound = that candidate; the search changes the bracket at no other step.
C8_BracketNarrowing ==
    [][ /\ (pc = "for_ii" /\ Eval.err = "none" /\ ~StrictlyImproves) =>
            /\ pc' = "for_i"
            /\ iters' = iters + 1
            /\ lbound' = best_theta.v - (intervals[2] - intervals[1])
            /\ ubound' = ii
        /\ (pc # "call" /\ <<lbound, ubound>>' # <<lbound, ubound>>) =>
            (pc = "for_ii" /\ Eval.err = "none" /\ ~StrictlyImproves) ]_vars

C8_Witness ==
    /\ ML /\ pc = "for_i" /\ i = 1 /\ iters > 2
    /\ ubound = ii
    /\ lbound = best_theta.v - (intervals[2] - intervals[1])
    /\ lbound < ubound
    /\ lbound # intervals[1]

\* C9: in every round the 10 candidates go from lbound to ubound in
\* increasing order: lbound <= ubound at the start of every round.
C9_BracketOrdered ==
    (ML /\ pc = "for_ii") =>
        /\ lbound <= ubound
        /\ intervals[1] = lbound /\ intervals[Len(intervals)] = ubound
        /\ \A k \in 1..(Len(intervals) - 1) : intervals[k] <= intervals[k + 1]

\* C10: a theta that maximum_likelihood returns is finite and is a candidate
\* evaluated during the call; from the first evaluation that returns on,
\* best_theta and max_ll are finite (the first candidate improves on -inf).
C10_ReturnsEvaluatedCandidate ==
    ML =>
        /\ result.kind = "return" =>
               result.val.inf = 0 /\ result.val.v \in EvaluatedThetas
        /\ evaluated # <<>> =>
               /\ best_theta.inf = 0 /\ max_ll.inf = 0
               /\ evaluated[1].theta = Min(Difficulties(administered_items))
               /\ iters >= 1

C10_Witness ==
    /\ ML /\ pc = "done" /\ result.kind = "return"
    /\ Len(administered_items) = 1
    /\ result.val.v \in EvaluatedThetas

====
